---- MODULE Spec2Model ----
(***************************************************************************)
(* panmath: plaintext math -> tokens -> postfix -> AST.                    *)
(*                                                                         *)
(* The model follows AsciiParser::parse (src/src/parsers/ascii.rs): the    *)
(* tokenizer loop of src/src/parsers/token.rs, then parse_into_postfix,    *)
(* then parse_into_tree.  One action is one iteration of the loop of the   *)
(* stage the parse is in; a Rust panic ends the run with result "panic".   *)
(*                                                                         *)
(* A text is a sequence of characters, a character is a one-element        *)
(* string; a character outside ASCII is written by its code point          *)
(* ("u00B7").  Option<u8> is a sequence of length at most one.             *)
(***************************************************************************)
EXTENDS Naturals, Sequences, FiniteSets

VARIABLES
    entry,          \* the function called: "parse", "parse_into_postfix",
                    \* "need_parens"
    input,          \* the text handed to parse
    pc,             \* "tokenize", "postfix", "tree", "need_parens", "done"
    rest,           \* tokenize: the unread suffix of the input
    tokens,         \* tokenize: the tokens emitted so far
    curr_unknown,   \* tokenize: the pending run of unrecognized characters
    inputs,         \* parse_into_postfix: the tokens it is handed
    pos,            \* index of the next token the postfix / tree loop reads
    operators,      \* parse_into_postfix: operator stack, front first
    output,         \* parse_into_postfix: output queue
    exprs,          \* parse_into_tree: expression stack, front first
    result,         \* outcome of parse
    first,          \* the tree of the parse whose rendering is parsed again
    np_args,        \* need_parens: its arguments
    np_result       \* need_parens: the pair it returns

vars == <<entry, input, pc, rest, tokens, curr_unknown, inputs, pos, operators,
          output, exprs, result, first, np_args, np_result>>

(***************************************************************************)
(* Bounds of the model.                                                    *)
(***************************************************************************)
\* longest text, counted in lexemes, of the exhaustively enumerated inputs
MaxLex == 4
\* most tokens, End apart, handed to parse_into_postfix directly
MaxTok == 4

(***************************************************************************)
(* Option<u8>                                                              *)
(***************************************************************************)
None == <<>>
Some(p) == <<p>>

(***************************************************************************)
(* ast::Symbol and the symbol catalog (symbols.rs), restricted to the      *)
(* entries that have a spelling over the characters of the model's inputs. *)
(***************************************************************************)
Symbol(unicode, ascii, latex, others) ==
    [unicode_repr |-> unicode, ascii_repr |-> ascii, latex_repr |-> latex,
     other_reprs |-> others]

\* impl From<String> for Symbol / From<&str>
SymbolFrom(s) == Symbol(s, s, s, <<>>)

\* Symbol::reprs: unicode, ascii, latex, then the others in order
reprs(sym) ==
    <<sym.unicode_repr, sym.ascii_repr, sym.latex_repr>> \o sym.other_reprs

symbols_LE == Symbol(<<"u2264">>, <<"<", "=">>, <<"\\", "l", "e">>,
                     << <<" ", "l", "e">> >>)
symbols_GE == Symbol(<<"u2265">>, <<">", "=">>, <<"\\", "g", "e">>,
                     << <<" ", "g", "e">> >>)
symbols_NEQ == Symbol(<<"u2260">>, <<"!", "=">>, <<"\\", "n", "e", "q">>,
                      << <<"=", "/", "=">>, <<"/", "=">>,
                         <<" ", "n", "e", "q">> >>)
symbols_PLUS == Symbol(<<"+">>, <<"+">>, <<"+">>, << <<"p", "l", "u", "s">> >>)
symbols_MINUS == Symbol(<<"-">>, <<"u2212">>, <<"-">>,
                        << <<"m", "i", "n", "u", "s">> >>)
symbols_PM == Symbol(<<"u00B1">>, <<"+", "/", "-">>, <<"\\", "p", "m">>,
                     << <<"+", "-">>, <<" ", "p", "m">> >>)
symbols_POWER == Symbol(<<"^">>, <<"^">>, <<"\\", "^", "{", "}">>, <<>>)
symbols_DIV == Symbol(<<"/">>, <<"/">>, <<"/">>, <<>>)
symbols_INF == Symbol(<<"u221E">>, <<" ", "i", "n", "f">>,
                      <<"\\", "i", "n", "f", "t", "y">>,
                      << <<"i", "n", "f", "i", "n", "i", "t", "y">>,
                         <<"o", "o">> >>)
symbols_ELEM == Symbol(<<"u2208">>, <<" ", "i", "n">>, <<"\\", "i", "n">>,
                       << <<" ", "e", "l", "e", "m">> >>)
symbols_SYM == Symbol(<<"u223C">>, <<"~">>, <<"\\", "s", "y", "m">>, <<>>)
symbols_APPROX == Symbol(<<"u2245">>, <<"~", "=">>,
                         <<"\\", "a", "p", "p", "r", "o", "x">>, <<>>)
\* the third alternate spelling is written "\times" in a plain Rust string:
\* a tab followed by "imes"
symbols_MULT == Symbol(<<"u00B7">>, <<"*">>, <<"\\", "c", "d", "o", "t">>,
                       << <<" ", "t", "i", "m", "e", "s">>,
                          <<"u0009", "i", "m", "e", "s">>, <<"u00D7">> >>)
symbols_DEGREE == Symbol(<<"u00B0">>, <<"o">>,
                         <<"^", "{", "\\", "c", "i", "r", "c", "}">>,
                         << <<" ", "d", "e", "g">>,
                            <<" ", "d", "e", "g", "r", "e", "e", "s">> >>)
LEFT_PAR == Symbol(<<"(">>, <<"(">>, <<"\\", "l", "e", "f", "t", "(">>, <<>>)
RIGHT_PAR == Symbol(<<")">>, <<")">>, <<"\\", "r", "i", "g", "h", "t", ")">>,
                    <<>>)
LEFT_BRACKET == Symbol(<<"[">>, <<"[">>, <<"\\", "l", "e", "f", "t", "[">>,
                       <<>>)
RIGHT_BRACKET == Symbol(<<"]">>, <<"]">>,
                        <<"\\", "r", "i", "g", "h", "t", "]">>, <<>>)
symbols_COMMA == SymbolFrom(<<",">>)

MISC == <<symbols_LE, symbols_GE, symbols_NEQ, symbols_PM, symbols_INF,
          symbols_ELEM, symbols_SYM, symbols_APPROX, symbols_MULT,
          symbols_DEGREE>>

\* the keys of LATIN_SYMBOLS
LatinLetters ==
    {"a", "b", "c", "d", "e", "f", "g", "h", "i", "j", "k", "l", "m", "n",
     "o", "p", "q", "r", "s", "t", "u", "v", "w", "x", "y", "z",
     "A", "B", "C", "D", "E", "F", "G", "H", "I", "J", "K", "L", "M", "N",
     "O", "P", "Q", "R", "S", "T", "U", "V", "W", "X", "Y", "Z"}

LATIN_SYMBOLS_contains_key(s) == Len(s) = 1 /\ s[1] \in LatinLetters

\* SpecialFunction -> Symbol, SpecialFunction::square, SpecialFunction::inv
SpecialFunctionSym(name) == Symbol(name, name, <<"\\">> \o name, <<>>)
square(name) ==
    Symbol(name \o <<"u00B2">>, name \o <<"^", "2">>,
           <<"\\">> \o name \o <<"^", "2">>, <<>>)
inv(name) ==
    Symbol(name \o <<"u207B", "u00B9">>, name \o <<"^", "-", "1">>,
           <<"\\">> \o name \o <<"^", "{", "-", "1", "}">>, <<>>)

\* SPECIAL_FUNCS in the iteration order of its BTreeMap (keys ascending):
\* "sin" < "sin^-1" < "sin^2".  Of the 26 names only sin is spelled over the
\* characters of the model's inputs.
SinName == <<"s", "i", "n">>
SPECIAL_FUNCS == <<SpecialFunctionSym(SinName), inv(SinName), square(SinName)>>

\* ALL_SYMBOLS: Greek, Latin, special functions, MISC.  No Greek letter is
\* spelled over the characters of the model's inputs; the Latin symbols
\* are the letters of those characters.
LATIN_SYMBOLS_values ==
    <<SymbolFrom(<<"a">>), SymbolFrom(<<"b">>), SymbolFrom(<<"i">>),
      SymbolFrom(<<"n">>), SymbolFrom(<<"s">>), SymbolFrom(<<"x">>)>>
ALL_SYMBOLS == LATIN_SYMBOLS_values \o SPECIAL_FUNCS \o MISC

(***************************************************************************)
(* delimiter.rs                                                            *)
(***************************************************************************)
Delimiter(dir, kind) == [dir |-> dir, kind |-> kind]
LPAR == Delimiter("Left", "Paren")
RPAR == Delimiter("Right", "Paren")
LBRACKET == Delimiter("Left", "Bracket")
RBRACKET == Delimiter("Right", "Bracket")
DELIMS == <<LPAR, RPAR, LBRACKET, RBRACKET>>

get_symbol(delim) ==
    CASE delim.dir = "Left" /\ delim.kind = "Paren" -> LEFT_PAR
      [] delim.dir = "Left" /\ delim.kind = "Bracket" -> LEFT_BRACKET
      [] delim.dir = "Right" /\ delim.kind = "Paren" -> RIGHT_PAR
      [] delim.dir = "Right" /\ delim.kind = "Bracket" -> RIGHT_BRACKET

(***************************************************************************)
(* operators.rs                                                            *)
(***************************************************************************)
Op(sym, l_prec, r_prec) == [sym |-> sym, l_prec |-> l_prec, r_prec |-> r_prec]

UNARY_PLUS == Op(symbols_PLUS, None, Some(1))
UNARY_MINUS == Op(symbols_MINUS, None, Some(1))
UNARY_PM == Op(symbols_PM, None, Some(1))
POWER == Op(symbols_POWER, Some(4), Some(3))
MULT == Op(symbols_MULT, Some(6), Some(5))
DIV == Op(symbols_DIV, Some(6), Some(5))
\* ADD with its left and right precedence exchanged
ADD_swapped == Op(symbols_PLUS, Some(8), Some(7))
ADD == Op(symbols_PLUS, Some(7), Some(8))
SUB == Op(symbols_MINUS, Some(7), Some(8))
PM == Op(symbols_PM, Some(7), Some(8))
COMMA == Op(symbols_COMMA, Some(10), Some(11))

UNARY_OPS == <<UNARY_PLUS, UNARY_MINUS, UNARY_PM>>
BINARY_OPS == <<POWER, MULT, DIV, ADD, SUB, PM, COMMA>>

\* Vec::contains
Contains(list, x) == \E i \in 1..Len(list) : list[i] = x

(***************************************************************************)
(* Text helpers                                                            *)
(***************************************************************************)
Min(S) == CHOOSE i \in S : \A j \in S : i <= j

\* the first of the indices S that a for loop over a list reaches, 0 when
\* there is none
FirstIndex(S) == IF S = {} THEN 0 ELSE Min(S)

\* str::starts_with
StartsWith(text, prefix) ==
    Len(prefix) <= Len(text) /\ SubSeq(text, 1, Len(prefix)) = prefix

\* &text[n..] for n characters that were matched at the front of text
DropFront(text, n) == SubSeq(text, n + 1, Len(text))

\* char::is_whitespace, for the white space characters of the model
is_whitespace(c) == c \in {" ", "u0009", "u00A0"}

\* char::len_utf8: the characters written by code point are outside ASCII,
\* except the tab
len_utf8(c) ==
    IF c \in {"u00A0", "u00B0", "u00B1", "u00B2", "u00B7", "u00B9", "u00D7",
              "u00E9"} THEN 2
    ELSE IF c \in {"u2208", "u2212", "u221E", "u223C", "u2245", "u2260",
                   "u2264", "u2265", "u207B"} THEN 3
    ELSE 1

\* &rest[1..]: a byte index; None stands for the panic of slicing inside a
\* character of more than one byte
slice_from_1(text) ==
    IF len_utf8(Head(text)) = 1 THEN Some(Tail(text)) ELSE None

\* Symbol::match_front: the first of the symbol's spellings, in the order of
\* reprs, that the input starts with
match_front(sym, text) ==
    LET rs == reprs(sym)
        hit == FirstIndex({i \in 1..Len(rs) : StartsWith(text, rs[i])})
    IN IF hit = 0 THEN None ELSE Some(rs[hit])

(***************************************************************************)
(* parsers/token.rs                                                        *)
(***************************************************************************)
Operand(sym) == [type |-> "Operand", sym |-> sym]
Operator(op) == [type |-> "Operator", op |-> op]
Function(sym) == [type |-> "Function", sym |-> sym]
Delim(delim) == [type |-> "Delim", delim |-> delim]
End == [type |-> "End"]

IsRightDelim(tok) == tok.type = "Delim" /\ tok.delim.dir = "Right"
IsLeftDelim(tok) == tok.type = "Delim" /\ tok.delim.dir = "Left"

\* "push previous unknown token onto list"
flush(toks, unk) ==
    IF unk # <<>> THEN Append(toks, Operand(SymbolFrom(unk))) ELSE toks

\* curr_ops without the look at the pending unknown buffer
curr_ops_ignoring_buffer(toks, unk) ==
    IF toks # <<>> /\ toks[Len(toks)].type = "Operand" THEN BINARY_OPS
    ELSE IF toks # <<>> /\ IsRightDelim(toks[Len(toks)]) THEN BINARY_OPS
    ELSE UNARY_OPS

\* the operator candidates at the current position (curr_ops)
curr_ops(toks, unk) ==
    IF toks # <<>> /\ toks[Len(toks)].type = "Operand" THEN BINARY_OPS
    ELSE IF toks # <<>> /\ IsRightDelim(toks[Len(toks)]) THEN BINARY_OPS
    ELSE IF unk = <<>> THEN UNARY_OPS
    ELSE BINARY_OPS

\* a successful match: consume the spelling, flush the buffer, push the token
Emit(r, toks, unk, repr, tok) ==
    [rest |-> DropFront(r, Len(repr)), tokens |-> Append(flush(toks, unk), tok),
     curr_unknown |-> <<>>, panic |-> FALSE]

TokPanic(r, toks, unk) ==
    [rest |-> r, tokens |-> toks, curr_unknown |-> unk, panic |-> TRUE]

\* "if unknown, add to current unknown symbol": rest.chars().next().unwrap()
\* panics on an empty rest, &rest[1..] inside a character
PushUnknown(r, toks, unk) ==
    IF r = <<>> \/ slice_from_1(r) = None THEN TokPanic(r, toks, unk)
    ELSE [rest |-> slice_from_1(r)[1], tokens |-> toks,
          curr_unknown |-> Append(unk, Head(r)), panic |-> FALSE]

\* the matching part of one iteration, after the white space cleanup
MatchFront(r, toks, unk) ==
    LET d == FirstIndex({i \in 1..Len(DELIMS) :
                            match_front(get_symbol(DELIMS[i]), r) # None})
        ops == curr_ops(toks, unk)
        o == FirstIndex({i \in 1..Len(ops) : match_front(ops[i].sym, r) # None})
        f == FirstIndex({i \in 1..Len(SPECIAL_FUNCS) :
                            match_front(SPECIAL_FUNCS[i], r) # None})
        s == FirstIndex({i \in 1..Len(ALL_SYMBOLS) :
                /\ ~LATIN_SYMBOLS_contains_key(ALL_SYMBOLS[i].ascii_repr)
                /\ match_front(ALL_SYMBOLS[i], r) # None})
    IN IF d # 0 THEN
           Emit(r, toks, unk, match_front(get_symbol(DELIMS[d]), r)[1],
                Delim(DELIMS[d]))
       ELSE IF o # 0 THEN
           Emit(r, toks, unk, match_front(ops[o].sym, r)[1], Operator(ops[o]))
       ELSE IF f # 0 THEN
           Emit(r, toks, unk, match_front(SPECIAL_FUNCS[f], r)[1],
                Function(SPECIAL_FUNCS[f]))
       ELSE IF s # 0 THEN
           Emit(r, toks, unk, match_front(ALL_SYMBOLS[s], r)[1],
                Operand(ALL_SYMBOLS[s]))
       ELSE PushUnknown(r, toks, unk)

\* the white space cleanup at the head of an iteration: flush the buffer and
\* skip one byte; the iteration then goes on to the matching
SkipWhitespace(r, toks, unk) ==
    IF is_whitespace(Head(r)) THEN
        IF slice_from_1(r) = None THEN TokPanic(r, toks, unk)
        ELSE [rest |-> slice_from_1(r)[1], tokens |-> flush(toks, unk),
              curr_unknown |-> <<>>, panic |-> FALSE]
    ELSE [rest |-> r, tokens |-> toks, curr_unknown |-> unk, panic |-> FALSE]

\* one iteration of the 'parse loop, for a non-empty rest
TokenizeIteration(r, toks, unk) ==
    LET w == SkipWhitespace(r, toks, unk)
    IN IF w.panic THEN w ELSE MatchFront(w.rest, w.tokens, w.curr_unknown)

\* FinishTokens with End pushed before the flush of the buffer
FinishTokens_EndFirst(toks, unk) ==
    IF unk # <<>> THEN Append(Append(toks, End), Operand(SymbolFrom(unk)))
    ELSE Append(toks, End)

\* after the loop: flush the buffer, push End
FinishTokens(toks, unk) == Append(flush(toks, unk), End)

(***************************************************************************)
(* parsers/ascii.rs: parse_into_postfix                                    *)
(***************************************************************************)
\* a decision that pops when both precedences are absent and keeps an
\* operator that has no right precedence
does_bind_lenient(l_prec1, r_prec) ==
    IF l_prec1 = None /\ r_prec = None THEN "bind"
    ELSE IF l_prec1 = None \/ r_prec = None THEN "stay"
    ELSE IF r_prec[1] < l_prec1[1] THEN "bind" ELSE "stay"

\* does_bind with the comparison of the two precedences turned round
does_bind_reversed(l_prec1, r_prec) ==
    IF l_prec1 # None /\ r_prec # None THEN
        IF r_prec[1] > l_prec1[1] THEN "bind" ELSE "stay"
    ELSE IF l_prec1 # None /\ r_prec = None THEN "bind"
    ELSE IF l_prec1 = None /\ r_prec # None THEN "stay"
    ELSE "MissingOperands"

\* the match on (l_prec1, r_prec): "bind" pops op2, "stay" breaks, the last
\* arm returns Err(MissingOperands)
does_bind(l_prec1, r_prec) ==
    IF l_prec1 # None /\ r_prec # None THEN
        IF r_prec[1] < l_prec1[1] THEN "bind" ELSE "stay"
    ELSE IF l_prec1 # None /\ r_prec = None THEN "bind"
    ELSE IF l_prec1 = None /\ r_prec # None THEN "stay"
    ELSE "MissingOperands"

Shunt(ops, out, outcome) ==
    [operators |-> ops, output |-> out, outcome |-> outcome]

\* the while loop of the Operator arm that leaves a function on the stack
RECURSIVE PopForOperator_keeps_function(_, _, _)
PopForOperator_keeps_function(l_prec1, ops, out) ==
    IF ops = <<>> THEN Shunt(ops, out, "ok")
    ELSE LET op2 == Head(ops) IN
        IF IsLeftDelim(op2) THEN Shunt(ops, out, "ok")
        ELSE IF op2.type = "Operator" THEN
            LET b == does_bind(l_prec1, op2.op.r_prec) IN
            IF b = "MissingOperands" THEN Shunt(ops, out, "MissingOperands")
            ELSE IF b = "bind" THEN
                PopForOperator_keeps_function(l_prec1, Tail(ops),
                                              Append(out, op2))
            ELSE Shunt(ops, out, "ok")
        ELSE IF op2.type = "Function" THEN Shunt(ops, out, "ok")
        ELSE Shunt(ops, out, "panic")

\* the while loop of the Operator arm, for an operator of left precedence
\* l_prec1: pop what binds first
RECURSIVE PopForOperator(_, _, _)
PopForOperator(l_prec1, ops, out) ==
    IF ops = <<>> THEN Shunt(ops, out, "ok")
    ELSE LET op2 == Head(ops) IN
        IF IsLeftDelim(op2) THEN Shunt(ops, out, "ok")
        ELSE IF op2.type = "Operator" THEN
            LET b == does_bind(l_prec1, op2.op.r_prec) IN
            IF b = "MissingOperands" THEN Shunt(ops, out, "MissingOperands")
            ELSE IF b = "bind" THEN
                PopForOperator(l_prec1, Tail(ops), Append(out, op2))
            ELSE Shunt(ops, out, "ok")
        ELSE IF op2.type = "Function" THEN
            PopForOperator(l_prec1, Tail(ops), Append(out, op2))
        ELSE Shunt(ops, out, "panic")

\* the opener of its kind on top: discard it, and the function beneath it
AfterMatchingPair_drops_function(ops, out) ==
    LET ops1 == Tail(ops) IN
    IF ops1 # <<>> /\ Head(ops1).type = "Function"
    THEN Shunt(Tail(ops1), out, "again")
    ELSE Shunt(ops1, out, "again")

\* what the loop of the closing delimiter does once it has found the opener
\* of its kind on top: discard it, pop a function beneath it, and go round
\* the loop again with what is left
AfterMatchingPair(ops, out) ==
    LET ops1 == Tail(ops) IN
    IF ops1 # <<>> /\ Head(ops1).type = "Function"
    THEN Shunt(Tail(ops1), Append(out, Head(ops1)), "again")
    ELSE Shunt(ops1, out, "again")

\* the while loop of a closing delimiter that takes any opener for its own
RECURSIVE PopForRightDelim_any_kind(_, _, _)
PopForRightDelim_any_kind(lkind, ops, out) ==
    IF ops = <<>> THEN Shunt(ops, out, "ok")
    ELSE LET op2 == Head(ops) IN
        IF IsLeftDelim(op2) THEN
            LET m == AfterMatchingPair(ops, out) IN
            PopForRightDelim_any_kind(lkind, m.operators, m.output)
        ELSE PopForRightDelim_any_kind(lkind, Tail(ops), Append(out, op2))

\* the while loop of a closing delimiter that fails when the stack runs out
RECURSIVE PopForRightDelim_needs_opener(_, _, _)
PopForRightDelim_needs_opener(lkind, ops, out) ==
    IF ops = <<>> THEN Shunt(ops, out, "MismatchedParentheses")
    ELSE LET op2 == Head(ops) IN
        IF IsLeftDelim(op2) THEN
            IF op2.delim.kind = lkind THEN
                LET m == AfterMatchingPair(ops, out) IN
                IF m.operators = <<>> THEN Shunt(m.operators, m.output, "ok")
                ELSE PopForRightDelim_needs_opener(lkind, m.operators, m.output)
            ELSE Shunt(ops, out, "MismatchedParentheses")
        ELSE PopForRightDelim_needs_opener(lkind, Tail(ops), Append(out, op2))

\* the while loop of the closing delimiter of kind lkind
RECURSIVE PopForRightDelim(_, _, _)
PopForRightDelim(lkind, ops, out) ==
    IF ops = <<>> THEN Shunt(ops, out, "ok")
    ELSE LET op2 == Head(ops) IN
        IF IsLeftDelim(op2) THEN
            IF op2.delim.kind = lkind THEN
                LET m == AfterMatchingPair(ops, out) IN
                IF m.outcome = "again"
                THEN PopForRightDelim(lkind, m.operators, m.output)
                ELSE m
            ELSE Shunt(ops, out, "MismatchedParentheses")
        ELSE PopForRightDelim(lkind, Tail(ops), Append(out, op2))

\* the body of the for loop that puts an operand on the operator stack
PostfixToken_stacks_operand(token, ops, out) ==
    IF token.type = "Operand" THEN Shunt(<<token>> \o ops, out, "ok")
    ELSE IF token.type = "Operator" THEN
        LET r == PopForOperator(token.op.l_prec, ops, out) IN
        IF r.outcome = "ok"
        THEN Shunt(<<token>> \o r.operators, r.output, "ok")
        ELSE r
    ELSE IF token.type = "Function" THEN Shunt(<<token>> \o ops, out, "ok")
    ELSE IF IsLeftDelim(token) THEN Shunt(<<token>> \o ops, out, "ok")
    ELSE PopForRightDelim(token.delim.kind, ops, out)

\* the body of the for loop, for a token other than End
PostfixToken(token, ops, out) ==
    IF token.type = "Operand" THEN Shunt(ops, Append(out, token), "ok")
    ELSE IF token.type = "Operator" THEN
        LET r == PopForOperator(token.op.l_prec, ops, out) IN
        IF r.outcome = "ok"
        THEN Shunt(<<token>> \o r.operators, r.output, "ok")
        ELSE r
    ELSE IF token.type = "Function" THEN Shunt(<<token>> \o ops, out, "ok")
    ELSE IF IsLeftDelim(token) THEN Shunt(<<token>> \o ops, out, "ok")
    ELSE PopForRightDelim(token.delim.kind, ops, out)

(***************************************************************************)
(* ast.rs and parsers/ascii.rs: parse_into_tree                            *)
(***************************************************************************)
Sym(sym) == [node |-> "Sym", sym |-> sym]
BinaryExpr(bop, arg1, arg2) ==
    [node |-> "BinaryExpr", op |-> bop, arg1 |-> arg1, arg2 |-> arg2]
UnaryExpr(uop, arg) == [node |-> "UnaryExpr", op |-> uop, arg |-> arg]
FunctionCall(name, args) == [node |-> "Function", name |-> name, args |-> args]

Generic(symbol) == [kind |-> "Generic", symbol |-> symbol, fixity |-> "Infix"]
Power == [kind |-> "Power"]
Frac == [kind |-> "Frac"]
Concat == [kind |-> "Concat"]
UnaryGeneric(symbol) == [kind |-> "Generic", symbol |-> symbol]

\* a conversion that leaves the comma nodes alone
comma_sep_to_list_whole(tree) == <<tree>>

RECURSIVE comma_sep_to_list(_)
comma_sep_to_list(tree) ==
    IF /\ tree.node = "BinaryExpr"
       /\ tree.op.kind = "Generic"
       /\ tree.op.symbol = symbols_COMMA
    THEN comma_sep_to_list(tree.arg1) \o comma_sep_to_list(tree.arg2)
    ELSE <<tree>>

\* the node a binary operator builds from its two operands
BinaryNode(op, arg1, arg2) ==
    IF op = POWER THEN BinaryExpr(Power, arg1, arg2)
    ELSE IF op = DIV THEN BinaryExpr(Frac, arg1, arg2)
    ELSE BinaryExpr(Generic(op.sym), arg1, arg2)

Reduced(ex, outcome) == [exprs |-> ex, outcome |-> outcome]

\* the body of the for loop that calls a function of no argument when the
\* expression stack is empty
TreeToken_empty_call(token, ex) ==
    IF token.type = "Operand" THEN Reduced(<<Sym(token.sym)>> \o ex, "ok")
    ELSE IF token.type = "Operator" THEN
        IF Contains(UNARY_OPS, token.op) THEN
            IF ex = <<>> THEN Reduced(ex, "MissingOperands")
            ELSE Reduced(<<UnaryExpr(UnaryGeneric(token.op.sym), Head(ex))>>
                         \o Tail(ex), "ok")
        ELSE
            IF Len(ex) < 2 THEN Reduced(<<>>, "MissingOperands")
            ELSE Reduced(<<BinaryNode(token.op, ex[2], ex[1])>>
                         \o Tail(Tail(ex)), "ok")
    ELSE IF token.type = "Function" THEN
        IF ex = <<>> THEN Reduced(<<FunctionCall(token.sym, <<>>)>>, "ok")
        ELSE Reduced(<<FunctionCall(token.sym, comma_sep_to_list(Head(ex)))>>
                     \o Tail(ex), "ok")
    ELSE Reduced(ex, "MismatchedParentheses")

\* the body of the for loop, for a token other than End; the expression
\* stack has its front first
TreeToken(token, ex) ==
    IF token.type = "Operand" THEN Reduced(<<Sym(token.sym)>> \o ex, "ok")
    ELSE IF token.type = "Operator" THEN
        IF Contains(UNARY_OPS, token.op) THEN
            IF ex = <<>> THEN Reduced(ex, "MissingOperands")
            ELSE Reduced(<<UnaryExpr(UnaryGeneric(token.op.sym), Head(ex))>>
                         \o Tail(ex), "ok")
        ELSE
            IF Len(ex) < 2 THEN Reduced(<<>>, "MissingOperands")
            ELSE Reduced(<<BinaryNode(token.op, ex[2], ex[1])>>
                         \o Tail(Tail(ex)), "ok")
    ELSE IF token.type = "Function" THEN
        IF ex = <<>> THEN Reduced(ex, "MissingOperands")
        ELSE Reduced(<<FunctionCall(token.sym, comma_sep_to_list(Head(ex)))>>
                     \o Tail(ex), "ok")
    ELSE Reduced(ex, "MismatchedParentheses")

\* exprs.into_iter().rev().reduce(|acc, new| Concat(acc, new)), for a
\* non-empty stack: the back of the stack is the first accumulator
RECURSIVE ConcatAll(_)
ConcatAll(ex) ==
    IF Len(ex) = 1 THEN ex[1]
    ELSE BinaryExpr(Concat, ConcatAll(Tail(ex)), ex[1])

(***************************************************************************)
(* formatters/precedence.rs: need_parens                                   *)
(***************************************************************************)
Number(dec) == [node |-> "Number", dec |-> dec]
Log == [kind |-> "Log"]

\* BinaryOp::Generic as precedence.rs reads it: it carries the operator
GenericOp(op) == [kind |-> "Generic", op |-> op, fixity |-> "Infix"]

\* a comparison the other way round
prec_gt_reversed(prec1, prec2) ==
    IF prec1 = None THEN FALSE
    ELSE prec1[1] < (IF prec2 = None THEN 0 ELSE prec2[1])

\* prec1.map(|p| p > prec2.unwrap_or_default()).unwrap_or(false)
prec_gt(prec1, prec2) ==
    IF prec1 = None THEN FALSE
    ELSE prec1[1] > (IF prec2 = None THEN 0 ELSE prec2[1])

\* the operator whose precedences stand for a binary child, if it has one
child_op(bop) ==
    CASE bop.kind = "Generic" -> <<bop.op>>
      [] bop.kind = "Power" -> <<POWER>>
      [] bop.kind = "Frac" -> <<DIV>>
      [] bop.kind = "Log" -> <<POWER>>
      [] bop.kind = "Concat" -> <<>>

\* match lchild, under a parent of left precedence l_prec
left_parens(l_prec, lchild) ==
    IF lchild.node = "BinaryExpr" THEN
        LET c == child_op(lchild.op) IN
        IF c = <<>> THEN FALSE ELSE prec_gt(c[1].r_prec, l_prec)
    ELSE FALSE

\* match rchild, comparing the child's right precedence
right_parens_by_right(r_prec, rchild) ==
    IF rchild.node = "BinaryExpr" THEN
        LET c == child_op(rchild.op) IN
        IF c = <<>> THEN FALSE ELSE prec_gt(c[1].r_prec, r_prec)
    ELSE FALSE

\* match rchild, under a parent of right precedence r_prec
right_parens(r_prec, rchild) ==
    IF rchild.node = "BinaryExpr" THEN
        LET c == child_op(rchild.op) IN
        IF c = <<>> THEN FALSE ELSE prec_gt(c[1].l_prec, r_prec)
    ELSE FALSE

\* the arm of BinaryOp::Generic, for the parent's operator op
generic_parens(op, lchild, rchild) ==
    <<left_parens(op.l_prec, lchild), right_parens(op.r_prec, rchild)>>

\* a Concat arm that treats a unary child alike on both sides
concat_parens_alike(lchild, rchild) ==
    <<lchild.node \in {"BinaryExpr", "UnaryExpr"},
      rchild.node \in {"BinaryExpr", "UnaryExpr"}>>

\* the arm of BinaryOp::Concat
concat_parens(lchild, rchild) ==
    <<lchild.node = "BinaryExpr",
      rchild.node \in {"BinaryExpr", "UnaryExpr"}>>

\* a need_parens that never asks for parentheses under a fraction
need_parens_bare_frac(bin_op, lchild, rchild) ==
    CASE bin_op.kind = "Generic" -> generic_parens(bin_op.op, lchild, rchild)
      [] bin_op.kind = "Power" -> generic_parens(POWER, lchild, rchild)
      [] bin_op.kind = "Frac" -> <<FALSE, FALSE>>
      [] bin_op.kind = "Log" -> generic_parens(POWER, lchild, rchild)
      [] bin_op.kind = "Concat" -> concat_parens(lchild, rchild)

need_parens(bin_op, lchild, rchild) ==
    CASE bin_op.kind = "Generic" -> generic_parens(bin_op.op, lchild, rchild)
      [] bin_op.kind = "Power" -> generic_parens(POWER, lchild, rchild)
      [] bin_op.kind = "Frac" -> generic_parens(DIV, lchild, rchild)
      [] bin_op.kind = "Log" -> generic_parens(POWER, lchild, rchild)
      [] bin_op.kind = "Concat" -> concat_parens(lchild, rchild)

(***************************************************************************)
(* formatter.rs and formatters/unicode.rs: UnicodeFormatter                *)
(***************************************************************************)
format_symbol(sym) == sym.unicode_repr
format_number(dec) == dec

\* args.join(", ")
RECURSIVE join(_)
join(texts) ==
    IF texts = <<>> THEN <<>>
    ELSE IF Len(texts) = 1 THEN texts[1]
    ELSE texts[1] \o <<",", " ">> \o join(Tail(texts))

\* format!("({} {} {})", left, sym, right) and the like
format_binary_expr(bop, left, right) ==
    CASE bop.kind = "Generic" ->
            <<"(">> \o left \o <<" ">> \o format_symbol(bop.symbol) \o <<" ">>
                \o right \o <<")">>
      [] bop.kind = "Power" -> left \o <<"^">> \o right
      [] bop.kind = "Frac" -> left \o <<" ", "/", " ">> \o right
      [] bop.kind = "Log" -> <<"l", "o", "g", "_">> \o left \o <<" ">> \o right
      [] bop.kind = "Concat" -> left \o right

\* format!("({} {})", sym, arg)
format_unary_expr(uop, arg) ==
    <<"(">> \o format_symbol(uop.symbol) \o <<" ">> \o arg \o <<")">>

\* format!("{}({})", name, args.join(", "))
format_function(name, args) ==
    format_symbol(name) \o <<"(">> \o join(args) \o <<")">>

\* Formatter::format, for UnicodeFormatter
RECURSIVE format(_)
format(ast) ==
    CASE ast.node = "Sym" -> format_symbol(ast.sym)
      [] ast.node = "Number" -> format_number(ast.dec)
      [] ast.node = "BinaryExpr" ->
            format_binary_expr(ast.op, format(ast.arg1), format(ast.arg2))
      [] ast.node = "UnaryExpr" -> format_unary_expr(ast.op, format(ast.arg))
      [] ast.node = "Function" ->
            format_function(ast.name,
                            [k \in 1..Len(ast.args) |-> format(ast.args[k])])

(***************************************************************************)
(* Outcomes of parse                                                       *)
(***************************************************************************)
Pending == [kind |-> "none"]
Ok(tree) == [kind |-> "ok", tree |-> tree]
Err(e) == [kind |-> "err", err |-> e]
Panic(stage) == [kind |-> "panic", at |-> stage]

(***************************************************************************)
(* The inputs of the model                                                 *)
(***************************************************************************)
Lexemes ==
    {<<"a">>, <<" ">>, <<"-">>, <<"*">>, <<"^">>, <<"(">>, <<")">>,
     <<"s", "i", "n">>}

\* every concatenation of at most n lexemes
RECURSIVE TextsUpTo(_)
TextsUpTo(n) ==
    IF n = 0 THEN {<<>>}
    ELSE LET T == TextsUpTo(n - 1) IN T \cup {t \o l : t \in T, l \in Lexemes}

OperandTexts == {<<"2">>, <<"x">>, <<"a", "b">>}
InfixChars == {"+", "-", "*", "/", "^"}

\* `x o y`, written with or without blanks around the operator
Infix2(x, o, y, blanks) ==
    IF blanks THEN x \o <<" ", o, " ">> \o y ELSE x \o <<o>> \o y

\* `x o1 y o2 z`
Infix3(x, o1, y, o2, z, blanks) ==
    Infix2(Infix2(x, o1, y, blanks), o2, z, blanks)

InfixTexts ==
    {Infix2(x, o, y, b) : x \in OperandTexts, o \in InfixChars,
                          y \in OperandTexts, b \in BOOLEAN}
    \cup {Infix3(x, o[1], y, o[2], z, b) :
            x \in OperandTexts, y \in OperandTexts, z \in OperandTexts,
            o \in InfixChars \X InfixChars, b \in BOOLEAN}

\* an opening parenthesis before an expression, never closed
OpenTexts ==
    {<<"(">> \o Infix2(x, o, y, b) : x \in OperandTexts, o \in InfixChars,
                                     y \in OperandTexts, b \in BOOLEAN}

\* a character outside ASCII that no catalog symbol spells
NonAsciiTexts == {<<"u00E9">>, <<"2", "u00E9">>, <<"u00A0">>}

Openers == {"(", "["}
Closers == {")", "]"}

\* `o1 x + o2 y op z c1 c2`: two delimited groups, one inside the other,
\* closed in either order and by either kind
Nested(o1, o2, op, c1, c2, blanks) ==
    <<o1>> \o Infix2(<<"1">>, "+",
                     <<o2>> \o Infix2(<<"2">>, op, <<"3">>, blanks) \o <<c1>>,
                     blanks) \o <<c2>>

\* delimited expressions, the closing delimiter of the opener's kind or of
\* the other kind
DelimTexts ==
    {<<o>> \o Infix2(x, op, y, b) \o <<c>> :
        o \in Openers, c \in Closers, x \in OperandTexts, op \in InfixChars,
        y \in OperandTexts, b \in BOOLEAN}
    \cup {Nested(o[1], o[2], op, c[1], c[2], b) :
            o \in Openers \X Openers, c \in Closers \X Closers,
            op \in InfixChars, b \in BOOLEAN}

\* the binary operators a text can spell
BinaryChars == InfixChars \cup {","}

\* `sin a op b`: a function name, its argument without delimiters, a binary
\* operator and its right operand
FuncInfix(a, op, b, blanks) ==
    <<"s", "i", "n">> \o (IF blanks THEN <<" ">> ELSE <<>>)
        \o Infix2(a, op, b, blanks)

FuncInfixTexts ==
    {FuncInfix(a, op, b, bl) : a \in OperandTexts, op \in BinaryChars,
                               b \in OperandTexts, bl \in BOOLEAN}

\* an argument of a call: an operand x, or `x op y`
Arg(x) == [x |-> x, op |-> "", y |-> <<>>]
ArgOp(x, op, y) == [x |-> x, op |-> op, y |-> y]
ArgText(e, blanks) ==
    IF e.op = "" THEN e.x ELSE Infix2(e.x, e.op, e.y, blanks)

\* the arguments, a comma between two of them
RECURSIVE ArgList(_, _)
ArgList(es, blanks) ==
    IF Len(es) = 1 THEN ArgText(es[1], blanks)
    ELSE ArgText(es[1], blanks)
            \o (IF blanks THEN <<",", " ">> ELSE <<",">>)
            \o ArgList(Tail(es), blanks)

\* `sin(e1, ..., en)`
CallText(es, blanks) ==
    <<"s", "i", "n", "(">> \o ArgList(es, blanks) \o <<")">>

OperandArgs == {Arg(x) : x \in OperandTexts}
Args ==
    OperandArgs \cup {ArgOp(<<"1">>, op, <<"2">>) : op \in InfixChars}
    \cup {ArgOp(<<"3">>, "+", <<"4">>)}
FewArgs ==
    {Arg(<<"2">>), Arg(<<"x">>), ArgOp(<<"1">>, "+", <<"2">>),
     ArgOp(<<"1">>, "^", <<"2">>)}

\* the argument lists of the calls: one or two arguments of Args, three of
\* FewArgs
ArgLists ==
    {<<e>> : e \in Args} \cup (Args \X Args)
    \cup (FewArgs \X FewArgs \X FewArgs)

CallTexts == {CallText(es, bl) : es \in ArgLists, bl \in BOOLEAN}

\* a run of decimal digits and a letter right after it
DigitRuns == {<<"2">>, <<"1", "2">>}
Letters == {"a", "x"}
NumberLetterTexts == {d \o <<l>> : d \in DigitRuns, l \in Letters}

\* `sin^2`, alone and before its argument
SquaredTexts ==
    {SinName \o <<"^", "2">> \o t :
        t \in {<<>>, <<"(", "a", ")">>, <<" ", "a">>, <<"x">>}}

\* `1 o1 (2 o2 3) o3 4`: a group between two operators
Group(o1, o2, o3, blanks) ==
    Infix2(Infix2(<<"1">>, o1,
                  <<"(">> \o Infix2(<<"2">>, o2, <<"3">>, blanks) \o <<")">>,
                  blanks),
           o3, <<"4">>, blanks)

GroupTexts ==
    {Group(o[1], o[2], o[3], bl) :
        o \in InfixChars \X InfixChars \X InfixChars, bl \in BOOLEAN}

\* `x y z`: three operands, a blank between two of them
Juxta3(x, y, z) == x \o <<" ">> \o y \o <<" ">> \o z

\* `x y + z` and `x + y z`: a juxtaposition next to a sum
JuxtaSum(x, y, z, blanks) == x \o <<" ">> \o Infix2(y, "+", z, blanks)
SumJuxta(x, y, z, blanks) == Infix2(x, "+", y, blanks) \o <<" ">> \o z

JuxtaTexts ==
    {Juxta3(x, y, z) : x \in OperandTexts, y \in OperandTexts,
                       z \in OperandTexts}
    \cup {JuxtaSum(x, y, z, b) : x \in OperandTexts, y \in OperandTexts,
                                 z \in OperandTexts, b \in BOOLEAN}
    \cup {SumJuxta(x, y, z, b) : x \in OperandTexts, y \in OperandTexts,
                                 z \in OperandTexts, b \in BOOLEAN}

\* a spelling of each operator of BINARY_OPS, in the order of the table
TableChars == <<"^", "*", "/", "+", "-", "u00B1", ",">>

\* `1 c 2 d 3` for every ordered pair of operators of BINARY_OPS
PairTexts ==
    {Infix3(<<"1">>, TableChars[i], <<"2">>, TableChars[j], <<"3">>, b) :
        i \in 1..Len(TableChars), j \in 1..Len(TableChars), b \in BOOLEAN}

\* `x o y c` and `x o y c * 3`: a closing delimiter that nothing opened
UnopenedTexts ==
    {Infix2(x, o, y, b) \o <<c>> \o t :
        x \in OperandTexts, o \in InfixChars, y \in OperandTexts,
        b \in BOOLEAN, c \in Closers, t \in {<<>>, <<"*", "3">>}}

Inputs ==
    TextsUpTo(MaxLex) \cup InfixTexts \cup OpenTexts \cup NonAsciiTexts
    \cup DelimTexts \cup FuncInfixTexts \cup CallTexts
    \cup NumberLetterTexts \cup SquaredTexts \cup GroupTexts \cup JuxtaTexts
    \cup PairTexts \cup UnopenedTexts

\* an operator with a left precedence only, as the factorial that the
\* comment of ascii.rs:71-75 speaks of; no table of operators.rs has one
POSTFIX_ONLY == Op(SymbolFrom(<<"!">>), Some(2), None)

\* the operators a BinaryOp::Generic can carry
GenericOps ==
    {BINARY_OPS[i] : i \in 1..Len(BINARY_OPS)}
    \cup {UNARY_OPS[i] : i \in 1..Len(UNARY_OPS)} \cup {POSTFIX_ONLY}

BinaryOps == {GenericOp(op) : op \in GenericOps} \cup {Power, Frac, Log, Concat}

\* the children handed to need_parens: one of each variant of AST, a
\* binary expression of each operator
ChildTrees ==
    {Sym(SymbolFrom(<<"x">>)), Number(<<"2">>),
     UnaryExpr(UnaryGeneric(symbols_MINUS), Number(<<"2">>)),
     FunctionCall(SPECIAL_FUNCS[1], <<Sym(SymbolFrom(<<"x">>))>>)}
    \cup {BinaryExpr(bop, Number(<<"2">>), Number(<<"3">>)) : bop \in BinaryOps}

NeedParensArgs ==
    [bin_op : BinaryOps, lchild : ChildTrees, rchild : ChildTrees]

\* the tokens of the sequences handed to parse_into_postfix directly
TokenAlphabet ==
    {Operand(SymbolFrom(<<"2">>)), Operator(POSTFIX_ONLY), Operator(MULT),
     Operator(UNARY_MINUS), Delim(LPAR), Delim(RPAR),
     Function(SPECIAL_FUNCS[1]), End}

\* every sequence of at most n tokens of the alphabet
RECURSIVE TokensUpTo(_)
TokensUpTo(n) ==
    IF n = 0 THEN {<<>>}
    ELSE LET T == TokensUpTo(n - 1)
         IN T \cup {Append(t, tok) : t \in T, tok \in TokenAlphabet}

\* as the tokenizer's, a sequence ends with End
TokenInputs == {Append(t, End) : t \in TokensUpTo(MaxTok)}

(***************************************************************************)
(* The state machine: parse(input), need_parens(bin_op, lchild, rchild),   *)
(* parse_into_tree(parse_into_postfix(inputs))                             *)
(***************************************************************************)
Init ==
    /\ tokens = <<>>
    /\ curr_unknown = <<>>
    /\ pos = 1
    /\ operators = <<>>
    /\ output = <<>>
    /\ exprs = <<>>
    /\ result = Pending
    /\ first = <<>>
    /\ np_result = <<>>
    /\ \/ /\ entry = "parse"
          /\ input \in Inputs
          /\ pc = "tokenize"
          /\ rest = input
          /\ inputs = <<>>
          /\ np_args = <<>>
       \/ /\ entry = "parse_into_postfix"
          /\ inputs \in TokenInputs
          /\ pc = "postfix"
          /\ input = <<>>
          /\ rest = <<>>
          /\ np_args = <<>>
       \/ /\ entry = "need_parens"
          /\ np_args \in NeedParensArgs
          /\ pc = "need_parens"
          /\ input = <<>>
          /\ rest = <<>>
          /\ inputs = <<>>

\* what no step of the pipeline of parse changes
call == <<entry, first, np_args, np_result>>

\* the for loop over toks leaves at index i: the tokens are used up, or
\* the token is End (break)
LoopEnds(toks, i) == IF i > Len(toks) THEN TRUE ELSE toks[i].type = "End"

\* one iteration of the tokenizer's loop
TokenizeStep ==
    /\ pc = "tokenize"
    /\ rest # <<>>
    /\ LET t == TokenizeIteration(rest, tokens, curr_unknown) IN
        /\ rest' = t.rest
        /\ tokens' = t.tokens
        /\ curr_unknown' = t.curr_unknown
        /\ pc' = IF t.panic THEN "done" ELSE "tokenize"
        /\ result' = IF t.panic THEN Panic("tokenize") ELSE result
    /\ UNCHANGED <<input, inputs, pos, operators, output, exprs, call>>

\* the tokenizer's loop exits; parse hands the tokens to parse_into_postfix
TokenizeEnd ==
    /\ pc = "tokenize"
    /\ rest = <<>>
    /\ tokens' = FinishTokens(tokens, curr_unknown)
    /\ inputs' = tokens'
    /\ pc' = "postfix"
    /\ pos' = 1
    /\ UNCHANGED <<input, rest, curr_unknown, operators, output, exprs, result,
                   call>>

\* one iteration of the loop of parse_into_postfix
PostfixStep ==
    /\ pc = "postfix"
    /\ ~LoopEnds(inputs, pos)
    /\ LET r == PostfixToken(inputs[pos], operators, output) IN
        /\ operators' = r.operators
        /\ output' = r.output
        /\ pc' = IF r.outcome = "ok" THEN "postfix" ELSE "done"
        /\ result' = IF r.outcome = "ok" THEN result
                     ELSE IF r.outcome = "panic" THEN Panic("postfix")
                     ELSE Err(r.outcome)
        /\ pos' = pos + 1
    /\ UNCHANGED <<input, rest, tokens, curr_unknown, inputs, exprs, call>>

\* End, or the end of the tokens: output.append(&mut operators); parse hands
\* the postfix to parse_into_tree
PostfixEnd ==
    /\ pc = "postfix"
    /\ LoopEnds(inputs, pos)
    /\ output' = output \o operators
    /\ operators' = <<>>
    /\ pc' = "tree"
    /\ pos' = 1
    /\ UNCHANGED <<input, rest, tokens, curr_unknown, inputs, exprs, result,
                   call>>

\* one iteration of the loop of parse_into_tree
TreeStep ==
    /\ pc = "tree"
    /\ ~LoopEnds(output, pos)
    /\ LET r == TreeToken(output[pos], exprs) IN
        /\ exprs' = r.exprs
        /\ pc' = IF r.outcome = "ok" THEN "tree" ELSE "done"
        /\ result' = IF r.outcome = "ok" THEN result ELSE Err(r.outcome)
        /\ pos' = pos + 1
    /\ UNCHANGED <<input, rest, tokens, curr_unknown, inputs, operators,
                   output, call>>

\* the final assembly of parse_into_tree
TreeEnd ==
    /\ pc = "tree"
    /\ LoopEnds(output, pos)
    /\ result' = IF exprs = <<>> THEN Err("EmptyExpr") ELSE Ok(ConcatAll(exprs))
    /\ pc' = "done"
    /\ UNCHANGED <<input, rest, tokens, curr_unknown, inputs, pos, operators,
                   output, exprs, call>>

\* the tree that parse returned is rendered by UnicodeFormatter, as
\* unicodeify does, and the text is handed to parse
Reparse ==
    /\ entry = "parse"
    /\ pc = "done"
    /\ result.kind = "ok"
    /\ first = <<>>
    /\ first' = <<result.tree>>
    /\ input' = format(result.tree)
    /\ rest' = input'
    /\ pc' = "tokenize"
    /\ tokens' = <<>>
    /\ curr_unknown' = <<>>
    /\ inputs' = <<>>
    /\ pos' = 1
    /\ operators' = <<>>
    /\ output' = <<>>
    /\ exprs' = <<>>
    /\ result' = Pending
    /\ UNCHANGED <<entry, np_args, np_result>>

\* the call of need_parens
NeedParens ==
    /\ pc = "need_parens"
    /\ np_result' = need_parens(np_args.bin_op, np_args.lchild, np_args.rchild)
    /\ pc' = "done"
    /\ UNCHANGED <<entry, input, rest, tokens, curr_unknown, inputs, pos,
                   operators, output, exprs, result, first, np_args>>

Next ==
    \/ TokenizeStep
    \/ TokenizeEnd
    \/ PostfixStep
    \/ PostfixEnd
    \/ TreeStep
    \/ TreeEnd
    \/ Reparse
    \/ NeedParens

Spec == Init /\ [][Next]_vars

(***************************************************************************)
(* Properties                                                              *)
(***************************************************************************)
\* the trees the properties name
Leaf(text) == Sym(SymbolFrom(text))
AddOf(l, r) == BinaryExpr(Generic(symbols_PLUS), l, r)
SubOf(l, r) == BinaryExpr(Generic(symbols_MINUS), l, r)
MultOf(l, r) == BinaryExpr(Generic(symbols_MULT), l, r)
PowerOf(l, r) == BinaryExpr(Power, l, r)
OperandOf(text) == Operand(SymbolFrom(text))

\* parse has returned or panicked on `x o1 y o2 z`
ParsedInfix3(x, o1, y, o2, z, blanks) ==
    pc = "done" /\ input = Infix3(x, o1, y, o2, z, blanks)

\* tokenize has returned its tokens
TokenizeReturned ==
    /\ entry = "parse"
    /\ pc \in {"postfix", "tree"} \/ (pc = "done" /\ result # Panic("tokenize"))

\* C1: for all operands x, y, z, `x + y * z` parses to Add(x, Mult(y, z)),
\* and the postfix that parse_into_postfix hands on is x y z * +.
C1_MultBindsTighterThanAdd ==
    \A x \in OperandTexts, y \in OperandTexts, z \in OperandTexts,
       b \in BOOLEAN :
        ParsedInfix3(x, "+", y, "*", z, b) =>
            /\ result = Ok(AddOf(Leaf(x), MultOf(Leaf(y), Leaf(z))))
            /\ output = <<OperandOf(x), OperandOf(y), OperandOf(z),
                          Operator(MULT), Operator(ADD)>>

C1_Witness ==
    /\ ParsedInfix3(<<"2">>, "+", <<"x">>, "*", <<"a", "b">>, TRUE)
    /\ result.kind = "ok"

\* C2: for all operands x, y, z, `x ^ y ^ z` parses to
\* Power(x, Power(y, z)).
C2_PowerRightAssociative ==
    \A x \in OperandTexts, y \in OperandTexts, z \in OperandTexts,
       b \in BOOLEAN :
        ParsedInfix3(x, "^", y, "^", z, b) =>
            result = Ok(PowerOf(Leaf(x), PowerOf(Leaf(y), Leaf(z))))

\* C3: for all operands x, y, z, `x - y - z` parses to Sub(Sub(x, y), z).
C3_SubLeftAssociative ==
    \A x \in OperandTexts, y \in OperandTexts, z \in OperandTexts,
       b \in BOOLEAN :
        ParsedInfix3(x, "-", y, "-", z, b) =>
            result = Ok(SubOf(SubOf(Leaf(x), Leaf(y)), Leaf(z)))

\* C4: for all operands x, y, z, `x + y + z` parses to Add(x, Add(y, z)).
C4_AddAssociatesRightwards ==
    \A x \in OperandTexts, y \in OperandTexts, z \in OperandTexts,
       b \in BOOLEAN :
        ParsedInfix3(x, "+", y, "+", z, b) =>
            result = Ok(AddOf(Leaf(x), AddOf(Leaf(y), Leaf(z))))

C4_Witness ==
    /\ ParsedInfix3(<<"x">>, "+", <<"2">>, "+", <<"a", "b">>, FALSE)
    /\ result.kind = "ok"
    /\ output[Len(output)] = Operator(ADD)
    /\ output[Len(output) - 1] = Operator(ADD)

\* C5: tokenize never panics, whatever the input.
C5_TokenizeTotal == result # Panic("tokenize")

\* the text of a token (impl Display for Token)
TokenText(tok) ==
    CASE tok.type = "Operand" -> tok.sym.unicode_repr
      [] tok.type = "Operator" -> tok.op.sym.unicode_repr
      [] tok.type = "Function" -> tok.sym.unicode_repr
      [] tok.type = "Delim" -> get_symbol(tok.delim).unicode_repr
      [] tok.type = "End" -> <<"e", "o", "f">>

HasWhitespace(text) == \E i \in 1..Len(text) : is_whitespace(text[i])

\* C6: no token that tokenize emits has a white space character in its
\* text.
C6_NoWhitespaceInTokens ==
    \A i \in 1..Len(tokens) : ~HasWhitespace(TokenText(tokens[i]))

\* a token after which an operator is binary
EndsOperand(tok) == tok.type = "Operand" \/ IsRightDelim(tok)

MinusTokensOf(text, toks) ==
    (TokenizeReturned /\ input = text) => tokens = toks \o <<End>>

\* C7: in the tokens emitted so far, an operator of UNARY_OPS never comes
\* right after an Operand or a closing delimiter, and an operator of
\* BINARY_OPS always does; `-` is SUB in `x-y` and `x - y` and UNARY_MINUS
\* at the start, after an operator, after an opening delimiter and after a
\* function name.
C7_UnaryBinaryByContext ==
    /\ \A i \in 1..Len(tokens) :
        tokens[i].type = "Operator" =>
            /\ Contains(UNARY_OPS, tokens[i].op) =>
                   ~(i > 1 /\ EndsOperand(tokens[i - 1]))
            /\ Contains(BINARY_OPS, tokens[i].op) =>
                   (i > 1 /\ EndsOperand(tokens[i - 1]))
    /\ \A x \in OperandTexts, y \in OperandTexts, b \in BOOLEAN :
        MinusTokensOf(Infix2(x, "-", y, b),
                      <<OperandOf(x), Operator(SUB), OperandOf(y)>>)
    /\ MinusTokensOf(<<"-", "a">>, <<Operator(UNARY_MINUS), OperandOf(<<"a">>)>>)
    /\ MinusTokensOf(<<"a", "*", "-", "a">>,
                     <<OperandOf(<<"a">>), Operator(MULT), Operator(UNARY_MINUS),
                       OperandOf(<<"a">>)>>)
    /\ MinusTokensOf(<<"(", "-", "a", ")">>,
                     <<Delim(LPAR), Operator(UNARY_MINUS), OperandOf(<<"a">>),
                       Delim(RPAR)>>)
    /\ MinusTokensOf(<<"s", "i", "n", " ", "-", "a">>,
                     <<Function(SPECIAL_FUNCS[1]), Operator(UNARY_MINUS),
                       OperandOf(<<"a">>)>>)

C7_Witness ==
    /\ pc = "postfix"
    /\ input = <<"a", "-", "-", "a">>
    /\ tokens = <<OperandOf(<<"a">>), Operator(SUB), Operator(UNARY_MINUS),
                  OperandOf(<<"a">>), End>>

\* C8: the tokens that tokenize returns end with End, and no End stands at
\* an earlier position, nor among the tokens emitted while the loop runs.
C8_EndOnlyLast ==
    /\ TokenizeReturned =>
           (tokens # <<>> /\ tokens[Len(tokens)] = End)
    /\ \A i \in 1..Len(tokens) :
           tokens[i] = End => (i = Len(tokens) /\ pc # "tokenize")

C8_Witness ==
    /\ pc = "postfix"
    /\ Len(tokens) = 4
    /\ tokens[3].type = "Operand"
    /\ tokens[4] = End

AllWhitespace(text) == \A i \in 1..Len(text) : is_whitespace(text[i])

\* C9: parse of the empty text and of a text of white space only ends with
\* Err(EmptyExpr).
C9_BlankIsEmptyExpr ==
    (entry = "parse" /\ pc = "done" /\ AllWhitespace(input))
        => result = Err("EmptyExpr")

\* the number of openers `open` of the text that no later `close` closes
RECURSIVE UnclosedDepth(_, _, _)
UnclosedDepth(text, open, close) ==
    IF text = <<>> THEN 0
    ELSE LET d == UnclosedDepth(SubSeq(text, 1, Len(text) - 1), open, close)
             c == text[Len(text)]
         IN IF c = open THEN d + 1
            ELSE IF c = close /\ d > 0 THEN d - 1
            ELSE d

HasUnclosedOpener(text) ==
    UnclosedDepth(text, "(", ")") > 0 \/ UnclosedDepth(text, "[", "]") > 0

\* C10: when the input has an opening delimiter that no later closing
\* delimiter of its kind closes, parse returns Err(MismatchedParentheses):
\* it neither succeeds nor returns another error.
C10_UnclosedIsMismatched ==
    (pc = "done" /\ result.kind \in {"ok", "err"} /\ HasUnclosedOpener(input))
        => result = Err("MismatchedParentheses")

\* the nearest opening delimiter on the operator stack, if there is one
NearestOpener(ops) ==
    LET S == {i \in 1..Len(ops) :
                ops[i].type = "Delim" /\ ops[i].delim.dir = "Left"}
    IN IF S = {} THEN <<>> ELSE <<ops[Min(S)].delim>>

\* parse_into_postfix is about to process a closing delimiter, and the
\* nearest opening delimiter on the operator stack is of the other kind
ClosesOtherKind ==
    /\ pc = "postfix"
    /\ pos <= Len(inputs)
    /\ inputs[pos].type = "Delim"
    /\ inputs[pos].delim.dir = "Right"
    /\ NearestOpener(operators) # <<>>
    /\ NearestOpener(operators)[1].kind # inputs[pos].delim.kind

\* C11: when parse_into_postfix processes a closing delimiter and the
\* nearest opening delimiter on the operator stack is of the other kind, it
\* fails with MismatchedParentheses; `(1 + [2 + 3)]` fails so.
C11_CrossedDelimsMismatched ==
    [][ClosesOtherKind =>
            (pc' = "done" /\ result' = Err("MismatchedParentheses"))]_vars

C11_Witness ==
    /\ pc = "done"
    /\ input = Nested("(", "[", "+", ")", "]", TRUE)
    /\ result = Err("MismatchedParentheses")
    /\ inputs[pos - 1] = Delim(RPAR)

\* the number of expressions a token of the postfix takes off the stack:
\* none for an operand, one for an operator of UNARY_OPS and for a function,
\* two for an operator of BINARY_OPS
Arity(tok) ==
    IF tok.type = "Operand" THEN 0
    ELSE IF tok.type = "Function" THEN 1
    ELSE IF \E i \in 1..Len(UNARY_OPS) : UNARY_OPS[i] = tok.op THEN 1
    ELSE 2

\* the tokens parse_into_tree reduces: operands, functions and the operators
\* of the two operator tables
Reducible(tok) ==
    \/ tok.type \in {"Operand", "Function"}
    \/ /\ tok.type = "Operator"
       /\ \E i \in 1..Len(UNARY_OPS \o BINARY_OPS) :
              (UNARY_OPS \o BINARY_OPS)[i] = tok.op

\* the children of a node, in order
Children(tree) ==
    CASE tree.node = "Sym" -> <<>>
      [] tree.node = "UnaryExpr" -> <<tree.arg>>
      [] tree.node = "BinaryExpr" -> <<tree.arg1, tree.arg2>>
      [] tree.node = "Function" -> tree.args

\* parse_into_tree is about to reduce the token tok
Reducing(tok) ==
    /\ pc = "tree"
    /\ pos <= Len(output)
    /\ output[pos] = tok

\* C12: a step of parse_into_tree fails with MissingOperands exactly when
\* the token it reduces needs more expressions than the stack holds (one for
\* a unary operator or a function, two for a binary operator); a step that
\* does not fail takes that many expressions off the stack and pushes one
\* node with at least that many children, the expressions taken in the order
\* they were pushed.
C12_MissingOperandsExactly ==
    [][\A i \in 1..Len(output) :
        (Reducing(output[i]) /\ pos = i /\ Reducible(output[i])) =>
            LET n == Arity(output[i]) IN
            /\ (result' = Err("MissingOperands")) <=> (Len(exprs) < n)
            /\ Len(exprs) >= n =>
                /\ result' = result
                /\ Len(exprs') = Len(exprs) - n + 1
                /\ SubSeq(exprs', 2, Len(exprs')) =
                       SubSeq(exprs, n + 1, Len(exprs))
                /\ Len(Children(exprs'[1])) >= n
                /\ output[i].type = "Operator" =>
                       Children(exprs'[1]) =
                           [k \in 1..n |-> exprs[n + 1 - k]]
      ]_vars

C12_Witness ==
    /\ pc = "done"
    /\ input = <<"a", "-">>
    /\ output = <<OperandOf(<<"a">>), Operator(SUB)>>
    /\ pos = 3
    /\ result = Err("MissingOperands")

\* the node of the binary operator a character spells
NodeOf(op, l, r) ==
    CASE op = "+" -> BinaryExpr(Generic(symbols_PLUS), l, r)
      [] op = "-" -> BinaryExpr(Generic(symbols_MINUS), l, r)
      [] op = "*" -> BinaryExpr(Generic(symbols_MULT), l, r)
      [] op = "," -> BinaryExpr(Generic(symbols_COMMA), l, r)
      [] op = "u00B1" -> BinaryExpr(Generic(symbols_PM), l, r)
      [] op = "/" -> BinaryExpr(Frac, l, r)
      [] op = "^" -> BinaryExpr(Power, l, r)

SinOf(args) == FunctionCall(SPECIAL_FUNCS[1], args)

\* C13: for all operands a, b and every binary operator op, `sin a op b`
\* parses to op(sin(a), b): the function takes the operand next to it, not
\* the binary expression; `sin 2 + x` is (sin 2) + x.
C13_FunctionBindsTighter ==
    \A a \in OperandTexts, b \in OperandTexts, op \in BinaryChars,
       bl \in BOOLEAN :
        (pc = "done" /\ input = FuncInfix(a, op, b, bl)) =>
            result = Ok(NodeOf(op, SinOf(<<Leaf(a)>>), Leaf(b)))

C13_Witness ==
    /\ pc = "done"
    /\ input = FuncInfix(<<"2">>, "+", <<"x">>, TRUE)
    /\ result = Ok(AddOf(SinOf(<<Leaf(<<"2">>)>>), Leaf(<<"x">>)))
    /\ output = <<OperandOf(<<"2">>), Function(SPECIAL_FUNCS[1]),
                  OperandOf(<<"x">>), Operator(ADD)>>

\* the tree of an argument of a call
ArgTree(e) ==
    IF e.op = "" THEN Leaf(e.x) ELSE NodeOf(e.op, Leaf(e.x), Leaf(e.y))

\* C14: for all arguments e1 .. en (n from 1 to 3, an argument an operand or
\* `x op y` with op not the comma), `sin(e1, ..., en)` parses to the call of
\* sin with the trees of e1 .. en as its arguments, in that order, and no
\* comma node; the postfix of `sin(1 + 2, 3 + 4)` is 1 2 + 3 4 + , sin.
C14_CommaFlattened ==
    /\ \A es \in ArgLists, bl \in BOOLEAN :
        (pc = "done" /\ input = CallText(es, bl)) =>
            result = Ok(SinOf([k \in 1..Len(es) |-> ArgTree(es[k])]))
    /\ \A bl \in BOOLEAN :
        (pc \in {"tree", "done"}
         /\ input = CallText(<<ArgOp(<<"1">>, "+", <<"2">>),
                               ArgOp(<<"3">>, "+", <<"4">>)>>, bl)) =>
            output = <<OperandOf(<<"1">>), OperandOf(<<"2">>), Operator(ADD),
                       OperandOf(<<"3">>), OperandOf(<<"4">>), Operator(ADD),
                       Operator(COMMA), Function(SPECIAL_FUNCS[1])>>

C14_Witness ==
    /\ pc = "done"
    /\ input = CallText(<<Arg(<<"x">>), ArgOp(<<"1">>, "^", <<"2">>),
                          Arg(<<"2">>)>>, TRUE)
    /\ result = Ok(SinOf(<<Leaf(<<"x">>),
                           PowerOf(Leaf(<<"1">>), Leaf(<<"2">>)),
                           Leaf(<<"2">>)>>))

\* need_parens has returned
NeedParensReturned == entry = "need_parens" /\ pc = "done"

AtomNodes == {"Sym", "Number", "UnaryExpr", "Function"}

\* a binary expression whose operator has a precedence pair: a generic
\* operator, a power (POWER's pair), a fraction (DIV's pair)
HasPrecedence(tree) ==
    tree.node = "BinaryExpr" /\ tree.op.kind \in {"Generic", "Power", "Frac"}

PrecedenceOp(tree) ==
    CASE tree.op.kind = "Generic" -> tree.op.op
      [] tree.op.kind = "Power" -> POWER
      [] tree.op.kind = "Frac" -> DIV

\* prec is present and greater than the number p
Exceeds(prec, p) == IF prec = <<>> THEN FALSE ELSE prec[1] > p

\* what a parent of left precedence Lp and right precedence Rp asks of its
\* children: an atom never takes parentheses, a binary child on the left
\* when its right precedence exceeds Lp, on the right when its left
\* precedence exceeds Rp
ByPrecedence(Lp, Rp) ==
    /\ np_args.lchild.node \in AtomNodes => np_result[1] = FALSE
    /\ np_args.rchild.node \in AtomNodes => np_result[2] = FALSE
    /\ HasPrecedence(np_args.lchild) =>
           np_result[1] = Exceeds(PrecedenceOp(np_args.lchild).r_prec, Lp)
    /\ HasPrecedence(np_args.rchild) =>
           np_result[2] = Exceeds(PrecedenceOp(np_args.rchild).l_prec, Rp)

IsBinaryOf(tree, bop) == tree.node = "BinaryExpr" /\ tree.op = bop

\* C15: for a generic parent whose two precedences Lp, Rp are present,
\* need_parens answers false for a symbol, number, unary or function child;
\* for a binary child on the left, true exactly when the child operator's
\* right precedence is greater than Lp, and on the right, true exactly when
\* its left precedence is greater than Rp.  (2 - 3) + 1/2 and (2 + 3) * 1^2
\* take parentheses on the left only.
C15_GenericParentByPrecedence ==
    NeedParensReturned =>
        /\ (/\ np_args.bin_op.kind = "Generic"
            /\ np_args.bin_op.op.l_prec # None
            /\ np_args.bin_op.op.r_prec # None) =>
               ByPrecedence(np_args.bin_op.op.l_prec[1],
                            np_args.bin_op.op.r_prec[1])
        /\ (/\ np_args.bin_op = GenericOp(ADD)
            /\ IsBinaryOf(np_args.lchild, GenericOp(SUB))
            /\ IsBinaryOf(np_args.rchild, Frac)) => np_result = <<TRUE, FALSE>>
        /\ (/\ np_args.bin_op = GenericOp(MULT)
            /\ IsBinaryOf(np_args.lchild, GenericOp(ADD))
            /\ IsBinaryOf(np_args.rchild, Power)) => np_result = <<TRUE, FALSE>>

C15_Witness ==
    /\ NeedParensReturned
    /\ np_args.bin_op = GenericOp(MULT)
    /\ IsBinaryOf(np_args.lchild, GenericOp(ADD))
    /\ IsBinaryOf(np_args.rchild, Power)
    /\ np_result = <<TRUE, FALSE>>

\* C16: under a generic parent, when a precedence of the comparison for a
\* side is absent (the parent's precedence for that side, or the binary
\* child's precedence facing the parent), need_parens answers false for that
\* side.
C16_AbsentPrecedenceNoParens ==
    (NeedParensReturned /\ np_args.bin_op.kind = "Generic") =>
        /\ (/\ HasPrecedence(np_args.lchild)
            /\ \/ np_args.bin_op.op.l_prec = None
               \/ PrecedenceOp(np_args.lchild).r_prec = None)
               => np_result[1] = FALSE
        /\ (/\ HasPrecedence(np_args.rchild)
            /\ \/ np_args.bin_op.op.r_prec = None
               \/ PrecedenceOp(np_args.rchild).l_prec = None)
               => np_result[2] = FALSE

\* C17 as stated: for a Frac parent need_parens answers (false, false),
\* whatever the children.
C17_FracNeverParens ==
    (NeedParensReturned /\ np_args.bin_op = Frac) => np_result = <<FALSE, FALSE>>

\* C17, amended: for a Frac parent need_parens answers as for a generic
\* parent with the precedences of DIV: a binary child takes parentheses on
\* the left when its right precedence exceeds DIV's left precedence, on the
\* right when its left precedence exceeds DIV's right precedence.
C17_FracAsDiv ==
    (NeedParensReturned /\ np_args.bin_op = Frac) =>
        ByPrecedence(DIV.l_prec[1], DIV.r_prec[1])

C17_Witness ==
    /\ NeedParensReturned
    /\ np_args.bin_op = Frac
    /\ IsBinaryOf(np_args.lchild, GenericOp(ADD))
    /\ IsBinaryOf(np_args.rchild, GenericOp(SUB))
    /\ np_result = <<TRUE, TRUE>>

\* C18: for a Concat parent need_parens answers true on either side for a
\* binary child, true on the right and false on the left for a unary child,
\* and false for a symbol, a number and a function call.
C18_ConcatParent ==
    (NeedParensReturned /\ np_args.bin_op = Concat) =>
        /\ np_args.lchild.node = "BinaryExpr" => np_result[1] = TRUE
        /\ np_args.rchild.node = "BinaryExpr" => np_result[2] = TRUE
        /\ np_args.lchild.node = "UnaryExpr" => np_result[1] = FALSE
        /\ np_args.rchild.node = "UnaryExpr" => np_result[2] = TRUE
        /\ np_args.lchild.node \in {"Sym", "Number", "Function"} =>
               np_result[1] = FALSE
        /\ np_args.rchild.node \in {"Sym", "Number", "Function"} =>
               np_result[2] = FALSE

C18_Witness ==
    /\ NeedParensReturned
    /\ np_args.bin_op = Concat
    /\ np_args.lchild.node = "UnaryExpr"
    /\ np_args.rchild.node = "UnaryExpr"
    /\ np_result = <<FALSE, TRUE>>

\* C19: when parse succeeds on a text, parse of the Unicode rendering of its
\* tree returns a tree equal to it.
C19_UnicodeRoundTrip ==
    (entry = "parse" /\ pc = "done" /\ first # <<>>) => result = Ok(first[1])

\* parse_into_postfix, and parse_into_tree after it, have run on toks
PostfixThenTreeOf(toks) ==
    entry = "parse_into_postfix" /\ pc = "done" /\ inputs = toks \o <<End>>

\* C20: an operator with a left precedence and no right precedence, fed
\* through parse_into_postfix and parse_into_tree: alone it fails with
\* MissingOperands, after one operand (tokens 2 !) it succeeds.
C20_PostfixOnlyOperator ==
    /\ PostfixThenTreeOf(<<Operator(POSTFIX_ONLY)>>) =>
           result = Err("MissingOperands")
    /\ PostfixThenTreeOf(<<Operand(SymbolFrom(<<"2">>)),
                           Operator(POSTFIX_ONLY)>>) => result.kind = "ok"

ConcatOf(l, r) == BinaryExpr(Concat, l, r)

\* C21: for every run of digits d and letter l, `dl` (as `2a`) parses to
\* Concat(d, l): the digits are one operand of that text, the letter
\* another.
C21_NumberLetterIsConcat ==
    \A d \in DigitRuns, l \in Letters :
        (entry = "parse" /\ pc = "done" /\ input = d \o <<l>>) =>
            result = Ok(ConcatOf(Leaf(d), Leaf(<<l>>)))

\* C22: when the input starts with `sin^2`, the first token that tokenize
\* emits is the Function of the symbol sin^2, not Function(sin).
C22_SquaredFunctionOneToken ==
    \A t \in SquaredTexts :
        (TokenizeReturned /\ input = t) =>
            tokens[1] = Function(square(SinName))

\* the position of the nearest opening delimiter on the operator stack, 0
\* when there is none
OpenerAt(ops) ==
    LET S == {i \in 1..Len(ops) :
                ops[i].type = "Delim" /\ ops[i].delim.dir = "Left"}
    IN IF S = {} THEN 0 ELSE Min(S)

\* parse_into_postfix is about to process a closing delimiter
Closing ==
    /\ pc = "postfix"
    /\ pos <= Len(inputs)
    /\ inputs[pos].type = "Delim"
    /\ inputs[pos].delim.dir = "Right"

\* the step of a closing delimiter whose nearest opener, at position k of
\* the operator stack, is of its kind: what is above k goes to the output,
\* the opener goes, a Function right beneath it goes to the output, and the
\* rest of the stack stays
ClosesGroup ==
    LET k == OpenerAt(operators)
        fn == IF k < Len(operators)
              THEN operators[k + 1].type = "Function" ELSE FALSE
        taken == IF fn THEN k + 1 ELSE k
    IN (/\ Closing
        /\ k > 0
        /\ operators[k].delim.kind = inputs[pos].delim.kind) =>
            /\ pc' = "postfix"
            /\ output' = output \o SubSeq(operators, 1, k - 1)
                              \o (IF fn THEN <<operators[k + 1]>> ELSE <<>>)
            /\ operators' = SubSeq(operators, taken + 1, Len(operators))

\* C23: a closing delimiter pops operators to the output down to the
\* nearest opener of its kind, discards that opener, pops the Function right
\* beneath it if there is one, and leaves the rest of the operator stack as
\* it is; `1 + (2 + 3) * 4` parses to Add(1, Mult(Add(2, 3), 4)) and
\* `2 * (3 + 4) ^ 5`, here `1 * (2 + 3) ^ 4`, to Mult(1, Power(Add(2, 3), 4)).
C23_ClosingDelimiterFrame ==
    /\ [][ClosesGroup]_vars
    /\ [](\A bl \in BOOLEAN :
            /\ (pc = "done" /\ input = Group("+", "+", "*", bl)) =>
                   result = Ok(AddOf(Leaf(<<"1">>),
                                    MultOf(AddOf(Leaf(<<"2">>), Leaf(<<"3">>)),
                                           Leaf(<<"4">>))))
            /\ (pc = "done" /\ input = Group("*", "+", "^", bl)) =>
                   result = Ok(MultOf(Leaf(<<"1">>),
                                     PowerOf(AddOf(Leaf(<<"2">>), Leaf(<<"3">>)),
                                             Leaf(<<"4">>)))))

\* parse_into_postfix is about to process the operator op1 with the
\* operator op2 on top of the operator stack
Deciding(op1, op2) ==
    /\ pc = "postfix"
    /\ pos <= Len(inputs)
    /\ inputs[pos] = Operator(op1)
    /\ operators # <<>>
    /\ operators[1] = Operator(op2)

\* the step pops the top of the operator stack to the output
PopsTop == Len(output') > Len(output) /\ output'[Len(output) + 1] = operators[1]

\* the step pushes the operator on the stack as it is
KeepsTop == output' = output /\ operators' = <<inputs[pos]>> \o operators

\* the step returns Err(MissingOperands)
FailsMissing == pc' = "done" /\ result' = Err("MissingOperands")

TokenOps == {POSTFIX_ONLY, MULT, UNARY_MINUS}

\* C24 as stated: for an incoming operator op1 and the operator op2 on top
\* of the stack, op2 is popped when op1 has no left and op2 no right
\* precedence, kept when only op2's right or only op1's left precedence is
\* absent, and popped exactly when op2.r_prec < op1.l_prec when both are
\* present; the comparison never returns an error.
C24_DoesBindAsStated ==
    [][\A op1 \in TokenOps, op2 \in TokenOps :
        Deciding(op1, op2) =>
            /\ ~FailsMissing
            /\ IF op1.l_prec = None /\ op2.r_prec = None THEN PopsTop
               ELSE IF op1.l_prec = None \/ op2.r_prec = None THEN KeepsTop
               ELSE IF op2.r_prec[1] < op1.l_prec[1] THEN PopsTop
               ELSE KeepsTop]_vars

\* C24, amended: when op1 has no left and op2 no right precedence,
\* parse_into_postfix returns Err(MissingOperands); when op1 has a left
\* precedence and op2 no right precedence, op2 is popped; when op1 has no
\* left precedence and op2 has a right one, op2 is kept; when both are
\* present, op2 is popped exactly when op2.r_prec < op1.l_prec.
C24_DoesBind ==
    [][\A op1 \in TokenOps, op2 \in TokenOps :
        Deciding(op1, op2) =>
            IF op1.l_prec = None /\ op2.r_prec = None THEN FailsMissing
            ELSE IF op2.r_prec = None THEN PopsTop /\ ~FailsMissing
            ELSE IF op1.l_prec = None THEN KeepsTop
            ELSE IF op2.r_prec[1] < op1.l_prec[1] THEN PopsTop /\ ~FailsMissing
            ELSE KeepsTop]_vars

C24_Witness ==
    /\ entry = "parse_into_postfix"
    /\ pc = "tree"
    /\ inputs = <<Operand(SymbolFrom(<<"2">>)), Operator(POSTFIX_ONLY),
                  Operator(MULT), Operand(SymbolFrom(<<"2">>)), End>>
    /\ output = <<Operand(SymbolFrom(<<"2">>)), Operator(POSTFIX_ONLY),
                  Operand(SymbolFrom(<<"2">>)), Operator(MULT)>>

\* C25: whatever the tokens, the operator stack of parse_into_postfix holds
\* opening delimiters, Operator tokens and Function tokens only, and the
\* panic `Unknown token on operator stack` does not happen.
C25_OperatorStackContents ==
    /\ \A i \in 1..Len(operators) :
        \/ operators[i].type \in {"Operator", "Function"}
        \/ operators[i].type = "Delim" /\ operators[i].delim.dir = "Left"
    /\ result # Panic("postfix")

C25_Witness ==
    /\ pc = "postfix"
    /\ pos = 4
    /\ operators = <<Operator(MULT), Delim(LPAR), Function(SPECIAL_FUNCS[1])>>

\* C26: for all operands x, y, z, the three expressions that `x y z` leaves
\* on the expression stack are combined into Concat(x, Concat(y, z)).
C26_ConcatRightFold ==
    \A x \in OperandTexts, y \in OperandTexts, z \in OperandTexts :
        (entry = "parse" /\ pc = "done" /\ input = Juxta3(x, y, z)) =>
            result = Ok(ConcatOf(Leaf(x), ConcatOf(Leaf(y), Leaf(z))))

\* C29: for all operands x, y, z, `x y + z` parses to Concat(x, Add(y, z))
\* and `x + y z` to Concat(Add(x, y), z).
C29_JuxtapositionLoosest ==
    \A x \in OperandTexts, y \in OperandTexts, z \in OperandTexts,
       b \in BOOLEAN :
        /\ (entry = "parse" /\ pc = "done" /\ input = JuxtaSum(x, y, z, b)) =>
               result = Ok(ConcatOf(Leaf(x), AddOf(Leaf(y), Leaf(z))))
        /\ (entry = "parse" /\ pc = "done" /\ input = SumJuxta(x, y, z, b)) =>
               result = Ok(ConcatOf(AddOf(Leaf(x), Leaf(y)), Leaf(z)))

\* the binary operator of the i-th operator of BINARY_OPS as need_parens
\* reads it
ParensOp(i) ==
    IF BINARY_OPS[i] = POWER THEN Power
    ELSE IF BINARY_OPS[i] = DIV THEN Frac
    ELSE GenericOp(BINARY_OPS[i])

\* need_parens, for parent P = BINARY_OPS[i] and a child of operator
\* C = BINARY_OPS[j] on the left, on the right
LeftChildBare(i, j) ==
    ~need_parens(ParensOp(i),
                 BinaryExpr(ParensOp(j), Number(<<"1">>), Number(<<"2">>)),
                 Number(<<"3">>))[1]
RightChildBare(i, j) ==
    ~need_parens(ParensOp(i), Number(<<"1">>),
                 BinaryExpr(ParensOp(j), Number(<<"2">>), Number(<<"3">>)))[2]

\* parse has returned on `1 c 2 d 3`, c and d the i-th and j-th operator
ParsedPair(i, j, blanks) ==
    /\ entry = "parse"
    /\ pc = "done"
    /\ input = Infix3(<<"1">>, TableChars[i], <<"2">>, TableChars[j], <<"3">>,
                      blanks)

\* C27: for every ordered pair (P, C) of operators of BINARY_OPS,
\* need_parens asks for no parentheses round a left child C of P exactly
\* when `1 C 2 P 3` parses to P(C(1, 2), 3), and for none round a right
\* child C of P exactly when `1 P 2 C 3` parses to P(1, C(2, 3)).
C27_ParensAgreeWithParser ==
    \A i \in 1..Len(BINARY_OPS), j \in 1..Len(BINARY_OPS), b \in BOOLEAN :
        /\ ParsedPair(j, i, b) =>
               (LeftChildBare(i, j) <=>
                   result = Ok(NodeOf(TableChars[i],
                                      NodeOf(TableChars[j], Leaf(<<"1">>),
                                             Leaf(<<"2">>)),
                                      Leaf(<<"3">>))))
        /\ ParsedPair(i, j, b) =>
               (RightChildBare(i, j) <=>
                   result = Ok(NodeOf(TableChars[i], Leaf(<<"1">>),
                                      NodeOf(TableChars[j], Leaf(<<"2">>),
                                             Leaf(<<"3">>)))))

C27_Witness ==
    /\ ParsedPair(6, 2, TRUE)
    /\ RightChildBare(6, 2)
    /\ ~LeftChildBare(2, 6)
    /\ result = Ok(NodeOf("u00B1", Leaf(<<"1">>),
                          MultOf(Leaf(<<"2">>), Leaf(<<"3">>))))

\* the step of a closing delimiter when the operator stack holds no opener:
\* the whole stack goes to the output and the loop goes on
DrainsUnopened ==
    (Closing /\ OpenerAt(operators) = 0) =>
        /\ pc' = "postfix"
        /\ pos' = pos + 1
        /\ operators' = <<>>
        /\ output' = output \o operators
        /\ result' = result

\* C28: a closing delimiter met when the operator stack holds no opening
\* delimiter raises no error: the whole operator stack goes to the output
\* and the loop goes on; `1 + 2)`, here `x o y)`, parses to the tree of
\* `x o y`, and `x o y) * 3` to the product of that tree and 3.
C28_UnopenedCloserDrains ==
    /\ [][DrainsUnopened]_vars
    /\ [](\A x \in OperandTexts, o \in InfixChars, y \in OperandTexts,
             b \in BOOLEAN, c \in Closers :
            /\ (entry = "parse" /\ pc = "done"
                    /\ input \in {Infix2(x, o, y, b),
                                  Infix2(x, o, y, b) \o <<c>>}) =>
                   result = Ok(NodeOf(o, Leaf(x), Leaf(y)))
            /\ (entry = "parse" /\ pc = "done"
                    /\ input = Infix2(x, o, y, b) \o <<c, "*", "3">>) =>
                   result = Ok(MultOf(NodeOf(o, Leaf(x), Leaf(y)),
                                      Leaf(<<"3">>))))

C28_Witness ==
    /\ entry = "parse"
    /\ pc = "done"
    /\ input = <<"2", " ", "+", " ", "x", ")">>
    /\ inputs = <<OperandOf(<<"2">>), Operator(ADD), OperandOf(<<"x">>),
                  Delim(RPAR), End>>
    /\ output = <<OperandOf(<<"2">>), OperandOf(<<"x">>), Operator(ADD)>>
    /\ result = Ok(AddOf(Leaf(<<"2">>), Leaf(<<"x">>)))

\* the tokens before the first End
BeforeEnd(toks) ==
    LET E == {i \in 1..Len(toks) : toks[i].type = "End"}
    IN IF E = {} THEN toks ELSE SubSeq(toks, 1, Min(E) - 1)

\* how many times the token t occurs in toks
Occurrences(toks, t) == Cardinality({i \in 1..Len(toks) : toks[i] = t})

IsOperand(t) == t.type = "Operand"
Carried(t) == t.type \in {"Operand", "Operator", "Function"}

\* parse_into_postfix has returned Ok: parse_into_tree has its output
PostfixReturnedOk == pc = "tree"

\* C30: whenever parse_into_postfix returns Ok, every Operand, Operator and
\* Function token is as often in its output as before the first End of its
\* input, the Operand tokens of the output are those of the input before
\* End in the same order, and the output holds no closing delimiter; what
\* follows the first End has no part in the output.
C30_PostfixKeepsTokens ==
    PostfixReturnedOk =>
        LET pre == BeforeEnd(inputs)
            seen == {pre[i] : i \in 1..Len(pre)}
                        \cup {output[i] : i \in 1..Len(output)}
        IN /\ \A t \in seen :
                Carried(t) => Occurrences(output, t) = Occurrences(pre, t)
           /\ SelectSeq(output, IsOperand) = SelectSeq(pre, IsOperand)
           /\ \A i \in 1..Len(output) :
                ~(output[i].type = "Delim" /\ output[i].delim.dir = "Right")

C30_Witness ==
    /\ entry = "parse_into_postfix"
    /\ PostfixReturnedOk
    /\ inputs = <<Function(SPECIAL_FUNCS[1]), OperandOf(<<"2">>), End,
                  Operator(MULT), End>>
    /\ output = <<OperandOf(<<"2">>), Function(SPECIAL_FUNCS[1])>>
====
